---- MODULE Spec2Model ----
(***************************************************************************)
(* Model of src/adobeanalytics2/adobeanalytics2.py: the AdobeAnalytics2    *)
(* client.  One client call is modelled from its entry to its return or    *)
(* raise.  A call blocks on each HTTP round trip, so a call is cut into    *)
(* one step per round trip: the step that sends a request, and the step    *)
(* that receives its response (an input) and runs the code up to the next  *)
(* request, the return or the raise.                                       *)
(***************************************************************************)
EXTENDS Integers, Sequences, FiniteSets, TLC

(***************************************************************************)
(* Bounds of the model.                                                    *)
(***************************************************************************)
MaxDims == 3
MaxMets == 2
MaxSegments == 2
MaxRows1 == 2
MaxRows2 == 2
MaxContent == 1

(***************************************************************************)
(* Small value sets the inputs are drawn from.  Dimension ids, metric ids  *)
(* and the literal column name "item_id" are pairwise different, as the    *)
(* API's "variables/..." and "metrics/..." namespaces are.                 *)
(***************************************************************************)
DimIds == {"page", "browser"}
MetIds == {"visits", "orders"}
SegIds == {"s1"}
Limits == {10, 50}
QueryTexts == {"q"}
StartDates == {"2024-01-01"}
EndDates == {"2024-01-02"}
ContentRows == {[id |-> "c1", name |-> "n1"]}

SeqsUpTo(S, n) == UNION {[1..m -> S] : m \in 0..n}

(***************************************************************************)
(* Python values.                                                          *)
(***************************************************************************)
\* None, where the other values of the variable are strings
None == "None"

\* truth value of an optional string ("if dim:", "if breakdown_dimension:")
Truthy(s) == s # None /\ s # ""

\* the ways a call can end
NoErr == "NoErr"
InputError == "InputError"
EmptyResultError == "EmptyResultError"
AttributeError == "AttributeError"
KeyError == "KeyError"

\* search_query: None (the default) or a dict from dimension id to text
SearchQueryNone == [given |-> FALSE, map |-> <<>>]
SearchQueryDict(m) == [given |-> TRUE, map |-> m]
SearchQueries ==
    {SearchQueryNone} \cup
    {SearchQueryDict(m) : m \in UNION {[D -> QueryTexts] : D \in {{}, {"page"}}}}

\* search_term: None (the default), a str, or a value of another type
SearchTerms ==
    {[type |-> "NoneType", val |-> ""], [type |-> "str", val |-> ""],
     [type |-> "str", val |-> "abc"], [type |-> "int", val |-> "5"]}

rsid == "<YOUR RSID>"

(***************************************************************************)
(* pandas.DataFrame: the column labels in order and the rows in order,     *)
(* each row a function from column label to cell.                          *)
(***************************************************************************)
EmptyDF == [columns |-> <<>>, rows |-> <<>>]

Range(s) == {s[i] : i \in DOMAIN s}

SelectCols(cols, keep) == SelectSeq(cols, LAMBDA c : c \in keep)

\* df.loc[j, col] = val, on row position j (1-based here), enlarging the frame
loc_set(df, j, col, val) ==
    [columns |-> IF col \in Range(df.columns) THEN df.columns ELSE Append(df.columns, col),
     rows    |-> IF j > Len(df.rows)
                 THEN Append(df.rows, (col :> val))
                 ELSE [df.rows EXCEPT ![j] = (col :> val) @@ df.rows[j]]]

\* df.append(other)
df_append(df, other) ==
    [columns |-> df.columns \o SelectCols(other.columns, Range(other.columns) \ Range(df.columns)),
     rows    |-> df.rows \o other.rows]

\* df.drop([col], axis=1): KeyError when the label is not a column
drop_raises(df, col) == col \notin Range(df.columns)

drop(df, col) ==
    [columns |-> SelectCols(df.columns, Range(df.columns) \ {col}),
     rows    |-> [j \in DOMAIN df.rows |->
                    [c \in (DOMAIN df.rows[j]) \ {col} |-> df.rows[j][c]]]]

\* left.merge(right, left_on=key, right_on=key): inner join on key; KeyError
\* when either frame has no such column
merge_raises(left, right, key) ==
    key \notin Range(left.columns) \/ key \notin Range(right.columns)

LeftName(c, right, key) ==
    IF c # key /\ c \in Range(right.columns) THEN c \o "_x" ELSE c

RightName(c, left, key) ==
    IF c \in Range(left.columns) THEN c \o "_y" ELSE c

MergeRow(l, r, left, right, key) ==
    LET lnames == {LeftName(c, right, key) : c \in DOMAIN l}
        rnames == {RightName(c, left, key) : c \in (DOMAIN r) \ {key}}
    IN  [n \in lnames \cup rnames |->
            IF n \in lnames
            THEN l[CHOOSE c \in DOMAIN l : LeftName(c, right, key) = n]
            ELSE r[CHOOSE c \in (DOMAIN r) \ {key} : RightName(c, left, key) = n]]

RECURSIVE MergeRows(_, _, _, _, _)
MergeRows(lrows, left, right, key, acc) ==
    IF lrows = <<>> THEN acc
    ELSE LET l == Head(lrows)
             matches == SelectSeq(right.rows, LAMBDA r : r[key] = l[key])
             joined == [m \in DOMAIN matches |-> MergeRow(l, matches[m], left, right, key)]
         IN  MergeRows(Tail(lrows), left, right, key, acc \o joined)

\* variant: every left row is paired with every right row, whatever the key
RECURSIVE CrossRows(_, _, _, _, _)
CrossRows(lrows, left, right, key, acc) ==
    IF lrows = <<>> THEN acc
    ELSE CrossRows(Tail(lrows), left, right, key,
                   acc \o [m \in DOMAIN right.rows |->
                              MergeRow(Head(lrows), right.rows[m], left, right, key)])

merge_cross(left, right, key) ==
    [columns |-> [i \in DOMAIN left.columns |-> LeftName(left.columns[i], right, key)]
                 \o [i \in DOMAIN SelectCols(right.columns, Range(right.columns) \ {key}) |->
                        RightName(SelectCols(right.columns, Range(right.columns) \ {key})[i], left, key)],
     rows    |-> CrossRows(left.rows, left, right, key, <<>>)]

merge(left, right, key) ==
    [columns |-> [i \in DOMAIN left.columns |-> LeftName(left.columns[i], right, key)]
                 \o [i \in DOMAIN SelectCols(right.columns, Range(right.columns) \ {key}) |->
                        RightName(SelectCols(right.columns, Range(right.columns) \ {key})[i], left, key)],
     rows    |-> MergeRows(left.rows, left, right, key, <<>>)]

(***************************************************************************)
(* _get_report: the request body.                                          *)
(***************************************************************************)
midnight == "T00:00:00.000"

date_range(start_date, end_date) == start_date \o midnight \o "/" \o end_date \o midnight

\* "dim in search_query.keys()" raises when search_query is None
search_query_raises(search_query) == ~search_query.given

build_report_body_json(mets, dim, segments, search_query, breakdown_dimension, item_id, start_date, end_date, limit) ==
    LET metrics == [i \in 1..Len(mets) |->
                       IF Truthy(breakdown_dimension)
                       THEN [columnId |-> i - 1, id |-> mets[i], filters |-> <<i - 1>>]
                       ELSE [columnId |-> i - 1, id |-> mets[i]]]
        metric_filters ==
            IF Truthy(dim)
            THEN [i \in 1..Len(mets) |->
                     [id |-> i - 1, type |-> "breakdown",
                      dimension |-> breakdown_dimension, itemId |-> item_id]]
            ELSE <<>>
        segment_filters == [i \in 1..Len(segments) |->
                               [type |-> "segment", segmentId |-> segments[i]]]
        report_body ==
            [rsid |-> rsid,
             globalFilters |-> <<[type |-> "dateRange",
                                  dateRange |-> date_range(start_date, end_date)]>>
                               \o segment_filters,
             metricContainer |-> [metrics |-> metrics, metricFilters |-> metric_filters],
             dimension |-> dim,
             settings |-> [countRepeatInstances |-> TRUE, limit |-> limit]]
    IN  IF dim \in DOMAIN search_query.map
        THEN ("search" :> [clause |-> search_query.map[dim]]) @@ report_body
        ELSE report_body

\* default of _get_report's limit parameter
DefaultReportLimit == 50

(***************************************************************************)
(* get_freeform_report: the pure parts.                                    *)
(***************************************************************************)
\* variant: the segment count is never checked
precondition_error_no_segments(mets, dims, segments) ==
    IF Len(dims) = 0 THEN InputError
    ELSE IF Len(mets) = 0 THEN InputError
    ELSE IF Len(dims) > 2 THEN InputError
    ELSE NoErr

precondition_error(mets, dims, segments) ==
    IF Len(dims) = 0 THEN InputError
    ELSE IF Len(mets) = 0 THEN InputError
    ELSE IF Len(dims) > 2 THEN InputError
    ELSE IF Len(segments) > 1 THEN InputError
    ELSE NoErr

\* item_ids = [row["itemId"] for row in resp_1["rows"]]
collect_item_ids(rows) == [j \in DOMAIN rows |-> rows[j].itemId]

\* the loop that fills result_df from the stage-1 rows
RECURSIVE fill_result_df(_, _, _, _)
fill_result_df(df, rows, j, dim) ==
    IF j > Len(rows) THEN df
    ELSE fill_result_df(loc_set(loc_set(df, j, "item_id", rows[j].itemId),
                                j, dim, rows[j].value),
                        rows, j + 1, dim)

\* variant: an assignment to a key already present is ignored
dict_set_keep_first(d, key, val) ==
    [keys |-> IF key \in Range(d.keys) THEN d.keys ELSE Append(d.keys, key),
     vals |-> d.vals @@ (key :> val)]

\* a dict that keeps insertion order: d[key] = val
dict_set(d, key, val) ==
    [keys |-> IF key \in Range(d.keys) THEN d.keys ELSE Append(d.keys, key),
     vals |-> (key :> val) @@ d.vals]

RECURSIVE set_metric_values(_, _, _, _)
set_metric_values(d, mets, data, j) ==
    IF j > Len(data) THEN d
    ELSE set_metric_values(dict_set(d, mets[j], data[j]), mets, data, j + 1)

\* data_dict of one stage-2 row
build_data_dict(item_id, dim, row, mets) ==
    set_metric_values(
        dict_set(dict_set([keys |-> <<>>, vals |-> <<>>], "item_id", item_id),
                 dim, row.value),
        mets, row.data, 1)

\* pd.DataFrame.from_dict(data_dict), every value a one-element list
from_dict(d) == [columns |-> d.keys, rows |-> <<d.vals>>]

RECURSIVE append_rows(_, _, _, _, _)
append_rows(df, rows, item_id, dim, mets) ==
    IF rows = <<>> THEN df
    ELSE append_rows(df_append(df, from_dict(build_data_dict(item_id, dim, Head(rows), mets))),
                     Tail(rows), item_id, dim, mets)

\* variant: an empty stage-2 response is skipped
empty_result_skipped(resp_2) == FALSE

\* "if len(resp_2["rows"]) == 0: raise"
empty_result(resp_2) == Len(resp_2.rows) = 0

(***************************************************************************)
(* State.                                                                  *)
(***************************************************************************)
VARIABLES
    pc,                  \* "idle", "stage1", "stage2", "done"
    op,                  \* the method called
    args,                \* its arguments
    requests,            \* the HTTP requests sent so far, in order
    resp_1,              \* the stage-1 response
    resps_2,             \* the stage-2 responses received so far, in order
    breakdown_dimension,
    item_ids,
    k,                   \* position in item_ids of the stage-2 request in flight
    result_df,
    data_df,
    content,             \* the "content" list of a metadata response
    ret,                 \* the returned value
    err                  \* the exception raised

vars == <<pc, op, args, requests, resp_1, resps_2, breakdown_dimension, item_ids,
          k, result_df, data_df, content, ret, err>>

NoReturn == [kind |-> "None", df |-> EmptyDF]
Returned(df) == [kind |-> "DataFrame", df |-> df]

NoArgs == [mets |-> <<>>, dims |-> <<>>, segments |-> <<>>,
           search_query |-> SearchQueryNone, start_date |-> "", end_date |-> "",
           limit |-> 0, search_term |-> [type |-> "NoneType", val |-> ""]]

NoResp == [columns |-> [dimension |-> [id |-> None]], rows |-> <<>>]

Init ==
    /\ pc = "idle"
    /\ op = "none"
    /\ args = NoArgs
    /\ requests = <<>>
    /\ resp_1 = NoResp
    /\ resps_2 = <<>>
    /\ breakdown_dimension = None
    /\ item_ids = <<>>
    /\ k = 0
    /\ result_df = EmptyDF
    /\ data_df = EmptyDF
    /\ content = <<>>
    /\ ret = NoReturn
    /\ err = NoErr

(***************************************************************************)
(* The responses the reporting endpoint can give.  Item ids are unique     *)
(* within one stage-1 response (the code uses them only through equality,  *)
(* so the j-th row carries the j-th id); a row's data list has one entry   *)
(* per requested metric.  The stage-1 code reads only itemId and value.    *)
(***************************************************************************)
ItemIdSeq == <<"i1", "i2", "i3", "i4">>

Stage1Rows(values) ==
    UNION {{[j \in 1..m |-> [itemId |-> ItemIdSeq[j], value |-> v[j]]] : v \in [1..m -> values]}
           : m \in 0..MaxRows1}

\* the data list of a stage-2 row: a different number at every position
DataList(nmets, first) == [j \in 1..nmets |-> first + j - 1]

Stage2Rows(nmets, firsts) ==
    SeqsUpTo([itemId : {"b1"}, value : {"chrome"},
              data : {DataList(nmets, first) : first \in firsts}], MaxRows2)

PostRequest(body) == [method |-> "POST", url |-> [path |-> "/reports/", rsid |-> rsid], json |-> body]

(***************************************************************************)
(* get_freeform_report                                                     *)
(***************************************************************************)
\* entry: the precondition checks, then the stage-1 _get_report up to its POST
get_freeform_report(mets, dims, segments, search_query, start_date, end_date, limit) ==
    /\ pc = "idle"
    /\ op' = "get_freeform_report"
    /\ args' = [NoArgs EXCEPT !.mets = mets, !.dims = dims, !.segments = segments,
                              !.search_query = search_query, !.start_date = start_date,
                              !.end_date = end_date, !.limit = limit]
    /\ IF precondition_error(mets, dims, segments) # NoErr
       THEN /\ err' = precondition_error(mets, dims, segments)
            /\ pc' = "done"
            /\ UNCHANGED requests
       ELSE IF search_query_raises(search_query)
       THEN /\ err' = AttributeError
            /\ pc' = "done"
            /\ UNCHANGED requests
       ELSE /\ requests' = Append(requests,
                  PostRequest(build_report_body_json(mets, dims[1], segments, search_query,
                                  None, None, start_date, end_date, limit)))
            /\ pc' = "stage1"
            /\ UNCHANGED err
    /\ UNCHANGED <<resp_1, resps_2, breakdown_dimension, item_ids, k, result_df, data_df,
                   content, ret>>

\* the stage-2 _get_report for item_ids[n], up to its POST (limit is not passed on)
Stage2Request(ids, bd, n) ==
    PostRequest(build_report_body_json(args.mets, args.dims[2], args.segments,
                    args.search_query, bd, ids[n], args.start_date, args.end_date,
                    DefaultReportLimit))

\* the stage-1 response arrives: lines 343-348, then either the return (one
\* dimension) or the start of the stage-2 loop (two dimensions)
Stage1Response(rows, dim_id) ==
    /\ pc = "stage1"
    /\ LET resp == [columns |-> [dimension |-> [id |-> dim_id]], rows |-> rows]
           ids == collect_item_ids(rows)
           df == fill_result_df(EmptyDF, rows, 1, args.dims[1])
       IN  /\ resp_1' = resp
           /\ breakdown_dimension' = dim_id
           /\ item_ids' = ids
           /\ IF Len(args.dims) = 1
              THEN /\ result_df' = df
                   /\ UNCHANGED <<requests, k, data_df>>
                   /\ pc' = "done"
                   /\ IF drop_raises(df, "item_id")
                      THEN err' = KeyError /\ UNCHANGED ret
                      ELSE ret' = Returned(drop(df, "item_id")) /\ UNCHANGED err
              ELSE IF ids = <<>>
              THEN \* the loop body never runs; the merge of two empty frames
                   /\ data_df' = EmptyDF
                   /\ UNCHANGED <<requests, k>>
                   /\ pc' = "done"
                   /\ IF merge_raises(df, EmptyDF, "item_id")
                      THEN err' = KeyError /\ result_df' = df /\ UNCHANGED ret
                      ELSE /\ result_df' = merge(df, EmptyDF, "item_id")
                           /\ ret' = Returned(drop(merge(df, EmptyDF, "item_id"), "item_id"))
                           /\ UNCHANGED err
              ELSE /\ result_df' = df
                   /\ data_df' = EmptyDF
                   /\ k' = 1
                   /\ requests' = Append(requests, Stage2Request(ids, dim_id, 1))
                   /\ pc' = "stage2"
                   /\ UNCHANGED <<ret, err>>
    /\ UNCHANGED <<op, args, resps_2, content>>

\* the stage-2 response for item_ids[k] arrives: lines 365-377, then either the
\* next stage-2 request or the merge and the return
Stage2Response(rows) ==
    /\ pc = "stage2"
    /\ LET resp == [rows |-> rows]
           df == append_rows(data_df, rows, item_ids[k], args.dims[2], args.mets)
       IN  /\ resps_2' = Append(resps_2, resp)
           /\ IF empty_result(resp)
              THEN /\ err' = EmptyResultError
                   /\ pc' = "done"
                   /\ UNCHANGED <<requests, k, result_df, data_df, ret>>
              ELSE IF k < Len(item_ids)
              THEN /\ data_df' = df
                   /\ k' = k + 1
                   /\ requests' = Append(requests,
                                         Stage2Request(item_ids, breakdown_dimension, k + 1))
                   /\ UNCHANGED <<pc, result_df, ret, err>>
              ELSE /\ data_df' = df
                   /\ pc' = "done"
                   /\ UNCHANGED <<requests, k>>
                   /\ IF merge_raises(result_df, df, "item_id")
                      THEN err' = KeyError /\ UNCHANGED <<result_df, ret>>
                      ELSE /\ result_df' = merge(result_df, df, "item_id")
                           /\ IF drop_raises(merge(result_df, df, "item_id"), "item_id")
                              THEN err' = KeyError /\ UNCHANGED ret
                              ELSE /\ ret' = Returned(drop(merge(result_df, df, "item_id"),
                                                           "item_id"))
                                   /\ UNCHANGED err
    /\ UNCHANGED <<op, args, resp_1, breakdown_dimension, item_ids, content>>

(***************************************************************************)
(* get_calculated_metrics, get_segments: one GET each.                     *)
(***************************************************************************)
\* "assert isinstance(search_term, str)"
search_term_error(search_term) ==
    IF search_term.type = "str" THEN NoErr ELSE InputError

\* the URL: its path and its query parameters; "if search_term:" adds name
metadata_url(path, rsid_key, search_term, limit) ==
    LET base == (rsid_key :> rsid) @@ [path |-> path, includeType |-> "all", limit |-> limit]
    IN  IF search_term.val # "" THEN ("name" :> search_term.val) @@ base ELSE base

\* pd.DataFrame(response.json()["content"])
content_df(rows) ==
    [columns |-> IF rows = <<>> THEN <<>> ELSE <<"id", "name">>,
     rows    |-> rows]

metadata_call(name, path, rsid_key, search_term, limit, rows) ==
    /\ pc = "idle"
    /\ op' = name
    /\ args' = [NoArgs EXCEPT !.search_term = search_term, !.limit = limit]
    /\ pc' = "done"
    /\ IF search_term_error(search_term) # NoErr
       THEN /\ err' = search_term_error(search_term)
            /\ UNCHANGED <<requests, content, ret>>
       ELSE /\ requests' = Append(requests,
                  [method |-> "GET", url |-> metadata_url(path, rsid_key, search_term, limit)])
            /\ content' = rows
            /\ ret' = Returned(content_df(rows))
            /\ UNCHANGED err
    /\ UNCHANGED <<resp_1, resps_2, breakdown_dimension, item_ids, k, result_df, data_df>>

get_calculated_metrics(search_term, limit, rows) ==
    metadata_call("get_calculated_metrics", "/calculatedmetrics/", "rsid",
                  search_term, limit, rows)

get_segments(search_term, limit, rows) ==
    metadata_call("get_segments", "/segments", "rsids", search_term, limit, rows)

(***************************************************************************)
(* Specifications.  Spec draws the call arguments from the full sets and   *)
(* the responses from small ones; SpecJoin draws the arguments that do not *)
(* reach the table from single values and the responses from larger sets.  *)
(***************************************************************************)
FreeformCall(metsets, dimsets, segsets, queries, limits) ==
    /\ pc = "idle"
    /\ \E mets \in metsets, dims \in dimsets, segments \in segsets,
          search_query \in queries, start_date \in StartDates, end_date \in EndDates,
          limit \in limits :
            get_freeform_report(mets, dims, segments, search_query, start_date, end_date, limit)

CalculatedMetricsCall ==
    /\ pc = "idle"
    /\ \E search_term \in SearchTerms, limit \in Limits, rows \in SeqsUpTo(ContentRows, MaxContent) :
            get_calculated_metrics(search_term, limit, rows)

SegmentsCall ==
    /\ pc = "idle"
    /\ \E search_term \in SearchTerms, limit \in Limits, rows \in SeqsUpTo(ContentRows, MaxContent) :
            get_segments(search_term, limit, rows)

Stage1Step(values, dim_ids) ==
    /\ pc = "stage1"
    /\ \E rows \in Stage1Rows(values), dim_id \in dim_ids : Stage1Response(rows, dim_id)

Stage2Step(firsts) ==
    /\ pc = "stage2"
    /\ \E rows \in Stage2Rows(Len(args.mets), firsts) : Stage2Response(rows)

Next ==
    \/ FreeformCall(SeqsUpTo(MetIds, MaxMets), SeqsUpTo(DimIds, MaxDims),
                    SeqsUpTo(SegIds, MaxSegments), SearchQueries, Limits)
    \/ Stage1Step({"home"}, DimIds)
    \/ Stage2Step({7})
    \/ CalculatedMetricsCall
    \/ SegmentsCall

Spec == Init /\ [][Next]_vars

JoinMets == {<<>>, <<"visits">>, <<"visits", "orders">>, <<"visits", "visits">>}

JoinDims == {<<"page">>, <<"page", "browser">>, <<"page", "page">>}

NextJoin ==
    \/ FreeformCall(JoinMets, JoinDims, {<<>>}, {SearchQueryDict(<<>>)}, {DefaultReportLimit})
    \/ Stage1Step({"home", "cart"}, {args.dims[1]})
    \/ Stage2Step({1, 5})
    \/ CalculatedMetricsCall
    \/ SegmentsCall

SpecJoin == Init /\ [][NextJoin]_vars

(***************************************************************************)
(* Properties.                                                             *)
(***************************************************************************)
Freeform == op = "get_freeform_report"

Metadata == op \in {"get_calculated_metrics", "get_segments"}

\* the four conditions on the arguments of get_freeform_report
Violates(a) ==
    \/ Len(a.dims) = 0
    \/ Len(a.mets) = 0
    \/ Len(a.dims) > 2
    \/ Len(a.segments) > 1

\* a two-dimension call that has returned
Completed2 == Freeform /\ pc = "done" /\ err = NoErr /\ Len(args.dims) = 2

RECURSIVE Flatten(_)
Flatten(ss) == IF ss = <<>> THEN <<>> ELSE Head(ss) \o Flatten(Tail(ss))

\* the stage-2 rows in the order received, and for each the position of the
\* stage-1 row whose item id the request was for
AllRows2 == Flatten([i \in DOMAIN resps_2 |-> resps_2[i].rows])
ParentOf == Flatten([i \in DOMAIN resps_2 |-> [j \in DOMAIN resps_2[i].rows |-> i]])

\* the column of the returned table that holds the first dimension
Dim1Col == IF args.dims[1] = args.dims[2] THEN args.dims[1] \o "_x" ELSE args.dims[1]

PostBodies == [i \in DOMAIN requests |-> requests[i].json]

C2_RowsAndParents ==
    Completed2 =>
        /\ ret.kind = "DataFrame"
        /\ Len(resps_2) = Len(resp_1.rows)
        /\ Len(ret.df.rows) = Len(AllRows2)
        /\ \A n \in DOMAIN ret.df.rows :
              ret.df.rows[n][Dim1Col] = resp_1.rows[ParentOf[n]].value

C2_Witness ==
    /\ Completed2
    /\ Len(resp_1.rows) = 2
    /\ resp_1.rows[1].value # resp_1.rows[2].value
    /\ Len(resps_2[1].rows) = 2
    /\ Len(resps_2[2].rows) = 1
    /\ Len(ret.df.rows) = 3

\* C3: a one-dimension call returns one row per stage-1 row, holding that
\* row's value, under the columns: the dimension and every requested metric,
\* without the item id.
C3_OneDimension ==
    (Freeform /\ pc = "done" /\ err = NoErr /\ Len(args.dims) = 1) =>
        /\ ret.kind = "DataFrame"
        /\ Len(ret.df.rows) = Len(resp_1.rows)
        /\ \A j \in DOMAIN ret.df.rows : ret.df.rows[j][args.dims[1]] = resp_1.rows[j].value
        /\ Range(ret.df.columns) = {args.dims[1]} \cup Range(args.mets)
        /\ "item_id" \notin Range(ret.df.columns)

\* C4: once a stage-2 response has no rows the call has raised the
\* empty-result error, returned nothing, and sent no stage-2 request beyond the
\* one that was answered with no rows.
C4_EmptyStage2Aborts ==
    (Freeform /\ \E i \in DOMAIN resps_2 : resps_2[i].rows = <<>>) =>
        /\ err = EmptyResultError
        /\ pc = "done"
        /\ ret = NoReturn
        /\ \A i \in DOMAIN resps_2 : resps_2[i].rows = <<>> <=> i = Len(resps_2)
        /\ Len(requests) = 1 + Len(resps_2)

C4_Witness ==
    /\ Freeform /\ err = EmptyResultError
    /\ Len(item_ids) = 2
    /\ Len(resps_2) = 1

LastPos(s, x) == CHOOSE i \in DOMAIN s : s[i] = x /\ \A j \in DOMAIN s : j > i => s[j] # x

\* C5 as stated: in a returned two-dimension table the column of the k-th
\* requested metric holds the k-th data entry of the stage-2 row.
C5_Positional ==
    Completed2 =>
        \A n \in DOMAIN ret.df.rows : \A m \in DOMAIN args.mets :
            ret.df.rows[n][args.mets[m]] = AllRows2[n].data[m]

\* C5 amended: the column of a requested metric id holds the data entry at the
\* last position at which that id occurs in the requested list, which is the
\* k-th entry for an id requested once; there is one column per distinct id.
C5_LastPosition ==
    Completed2 =>
        /\ Len(ret.df.rows) = Len(AllRows2)
        /\ \A n \in DOMAIN ret.df.rows : \A m \in DOMAIN args.mets :
              ret.df.rows[n][args.mets[m]] = AllRows2[n].data[LastPos(args.mets, args.mets[m])]
        /\ Len(ret.df.columns) = 2 + Cardinality(Range(args.mets))

C5_Witness ==
    /\ Completed2
    /\ Len(args.mets) = 2
    /\ args.mets[1] = args.mets[2]
    /\ Len(ret.df.rows) >= 1
    /\ AllRows2[1].data[1] # AllRows2[1].data[2]

\* C6: get_calculated_metrics and get_segments raise the input error, with no
\* request sent, exactly when the search term is supplied and is not text;
\* with no search term or the empty string they send one GET without a name
\* parameter and return every row; with other text the GET carries name.
C6_SearchTerm ==
    Metadata =>
        LET st == args.search_term
        IN  /\ err = InputError <=> st.type \notin {"NoneType", "str"}
            /\ err = InputError => requests = <<>>
            /\ (st.type = "NoneType" \/ (st.type = "str" /\ st.val = "")) =>
                  /\ Len(requests) = 1
                  /\ requests[1].method = "GET"
                  /\ "name" \notin DOMAIN requests[1].url
                  /\ ret = Returned(content_df(content))
            /\ (st.type = "str" /\ st.val # "") =>
                  /\ Len(requests) = 1
                  /\ requests[1].method = "GET"
                  /\ "name" \in DOMAIN requests[1].url
                  /\ requests[1].url.name = st.val

\* C7: a call that passes its preconditions sends first one stage-1 request
\* (first dimension, no breakdown), then with two dimensions one stage-2
\* request per distinct stage-1 item id (second dimension, that item id, the
\* dimension id of the stage-1 response); one request in all with one
\* dimension, 1 + the number of distinct item ids with two.
C7_RequestOrder ==
    (Freeform /\ ~Violates(args) /\ pc = "done") =>
        /\ Len(requests) >= 1
        /\ PostBodies[1].dimension = args.dims[1]
        /\ \A m \in DOMAIN PostBodies[1].metricContainer.metrics :
              "filters" \notin DOMAIN PostBodies[1].metricContainer.metrics[m]
        /\ Len(args.dims) = 1 => Len(requests) = 1
        /\ Len(args.dims) = 2 =>
              \A i \in 2..Len(requests) :
                  /\ PostBodies[i].dimension = args.dims[2]
                  /\ \A f \in DOMAIN PostBodies[i].metricContainer.metricFilters :
                        /\ PostBodies[i].metricContainer.metricFilters[f].itemId = item_ids[i - 1]
                        /\ PostBodies[i].metricContainer.metricFilters[f].dimension
                              = resp_1.columns.dimension.id
        /\ (Len(args.dims) = 2 /\ err # EmptyResultError) =>
              Len(requests) = 1 + Cardinality(Range(item_ids))

\* C8: every report body has one metric entry per requested metric with
\* columnId its position; the metric entries carry a filter reference, and
\* metricFilters the matching breakdown entries, only when a breakdown
\* dimension is given; the stage-1 body has an empty metricFilters.
C8_MetricContainer ==
    Freeform =>
        \A i \in DOMAIN requests :
            LET mc == PostBodies[i].metricContainer
                breakdown == i > 1
            IN  /\ Len(mc.metrics) = Len(args.mets)
                /\ \A m \in DOMAIN mc.metrics :
                      /\ mc.metrics[m].columnId = m - 1
                      /\ mc.metrics[m].id = args.mets[m]
                      /\ "filters" \in DOMAIN mc.metrics[m] <=> breakdown
                /\ breakdown =>
                      /\ Len(mc.metricFilters) = Len(args.mets)
                      /\ \A m \in DOMAIN mc.metricFilters :
                            mc.metricFilters[m] =
                                [id |-> m - 1, type |-> "breakdown",
                                 dimension |-> breakdown_dimension,
                                 itemId |-> item_ids[i - 1]]
                /\ ~breakdown => mc.metricFilters = <<>>

\* C9: a report body has a search clause exactly when its row dimension has an
\* entry in the search-query mapping, and the clause is that entry; a call
\* that passes its preconditions without a mapping still sends its stage-1
\* request, without a search clause.
C9_SearchClause ==
    Freeform =>
        /\ \A i \in DOMAIN requests :
              /\ "search" \in DOMAIN PostBodies[i]
                    <=> PostBodies[i].dimension \in DOMAIN args.search_query.map
              /\ "search" \in DOMAIN PostBodies[i] =>
                    PostBodies[i].search = [clause |-> args.search_query.map[PostBodies[i].dimension]]
        /\ (~Violates(args) /\ ~args.search_query.given) =>
              /\ Len(requests) >= 1
              /\ "search" \notin DOMAIN PostBodies[1]

\* C10: every report request of a get_freeform_report call, stage 1 and
\* stage 2 alike, has countRepeatInstances true and the caller's limit.
C10_Settings ==
    Freeform =>
        \A i \in DOMAIN requests :
            /\ PostBodies[i].settings.countRepeatInstances = TRUE
            /\ PostBodies[i].settings.limit = args.limit

====
